---- MODULE Spec2Model ----
(***************************************************************************)
(* A model of AppRadio (src/src/radio.ts): a tree of channel nodes, each   *)
(* with a listener list and a cached streamed message, and the timer queue *)
(* of the host (setTimeout) through which every handler is invoked.        *)
(***************************************************************************)
EXTENDS Integers, Sequences, FiniteSets, TLC

\* ------------------------------------------------------------------ bounds

\* Number of public calls made on the radio in one behaviour.
MaxCalls == 3

\* ------------------------------------------------------------------ inputs

\* Channel paths are strings, modelled as sequences of characters.
Paths == { <<"/">>, <<"a", "/", "b">>, <<"A", "/", "B">> }

\* The functions callers register (function identity is the name).
Handlers == { "h1", "h2" }

\* The payloads callers publish.
Payloads == { "x", "y" }

\* A message argument of broadcast/stream: a bare string, or a TMessage.
MessageArgs(paths, payloads) ==
    [str : {TRUE}, channel : {<< >>}, payload : payloads]
        \cup [str : {FALSE}, channel : paths, payload : payloads]

\* The argument of silence: a path, or nothing (the default applies).
SilenceArgs(paths) ==
    [given : {TRUE}, path : paths] \cup [given : {FALSE}, path : {<< >>}]

\* ------------------------------------------------------------------ values

\* currentInfo: null
Null == [payload |-> "null", via |-> "null"]

\* A TMessage held by the radio.  Only its payload is ever read back
\* (radio.ts:72,106,120); `via` records the operation that published it.
Message(payload, via) == [payload |-> payload, via |-> via]

\* A TListener: a function a caller registered ...
Fn(h) == [kind |-> "fn", handler |-> h, id |-> 0, channelPath |-> << >>]

\* ... or the closure `listener` that listenOnce creates (radio.ts:81-84);
\* every call of listenOnce creates a new one, told apart by `id`.
Once(id, h, channelPath) ==
    [kind |-> "once", handler |-> h, id |-> id, channelPath |-> channelPath]

\* A node as traversal creates it (radio.ts:36-40) and the root (radio.ts:54-58).
EmptyNode == [listeners |-> << >>, currentInfo |-> Null]

\* The root node's place in the tree: the empty sequence of child keys.
Root == << >>

NoListener == [kind |-> "none", handler |-> "none", id |-> 0, channelPath |-> << >>]

NoTask == [kind |-> "none"]

VARIABLES
    tree,      \* node (sequence of child keys from the root) -> [listeners, currentInfo]
    timers,    \* the callbacks passed to setTimeout that have not run yet, in order
    nextId,    \* identity of the next closure listenOnce creates
    calls,     \* the handler invocations made by the latest step, in order
    lastOp,    \* the latest step: operation, node it resolved, listener, timer task
    live,      \* history: nodes streamed to with no covering silence since
    onceRuns,  \* history: closure id -> number of times it invoked its handler
    ncalls,    \* number of public calls made so far
    sTree,     \* the tree under listenersRoot of the static packaging
    sTimers,   \* the pending setTimeout callbacks of the static packaging
    sCalls     \* the handler invocations it made in the latest step

vars == << tree, timers, nextId, calls, lastOp, live, onceRuns, ncalls,
           sTree, sTimers, sCalls >>

\* ------------------------------------------------------------------ strings

\* A lower-casing that leaves every character as it is.
LowerCharKeeps(c) == c

\* String.prototype.toLowerCase on one character of the alphabet in use.
LowerChar(c) ==
    CASE c = "A" -> "a"
      [] c = "B" -> "b"
      [] OTHER -> c

ToLowerCase(s) == [i \in DOMAIN s |-> LowerChar(s[i])]

\* String.prototype.split('/'): the tokens between slashes, at least one.
RECURSIVE SplitFrom(_, _, _)
SplitFrom(s, i, cur) ==
    IF i > Len(s) THEN << cur >>
    ELSE IF s[i] = "/" THEN << cur >> \o SplitFrom(s, i + 1, << >>)
    ELSE SplitFrom(s, i + 1, Append(cur, s[i]))

Split(s) == SplitFrom(s, 1, << >>)

\* Array.prototype.shift: the array without its first element.
Shift(a) == IF a = << >> THEN << >> ELSE Tail(a)

\* ------------------------------------------------------------------ tree

Children(t, n) ==
    { m \in DOMAIN t : Len(m) = Len(n) + 1 /\ SubSeq(m, 1, Len(n)) = n }

\* A walk that skips an empty token and goes on with the next one.
RECURSIVE WalkSkips(_, _, _)
WalkSkips(t, currentNode, channels) ==
    IF channels = << >>
    THEN [tree |-> t, node |-> currentNode]
    ELSE IF Head(channels) = << >>
    THEN WalkSkips(t, currentNode, Tail(channels))
    ELSE LET child == Append(currentNode, Head(channels))
             t2 == IF child \in DOMAIN t THEN t ELSE t @@ (child :> EmptyNode)
         IN  WalkSkips(t2, child, Tail(channels))

\* The loop of _traverseChannelTree: walk the remaining tokens from
\* currentNode, creating the children that are missing.
RECURSIVE Walk(_, _, _)
Walk(t, currentNode, channels) ==
    IF channels = << >> \/ Head(channels) = << >>
    THEN [tree |-> t, node |-> currentNode]
    ELSE LET child == Append(currentNode, Head(channels))
             t2 == IF child \in DOMAIN t THEN t ELSE t @@ (child :> EmptyNode)
         IN  Walk(t2, child, Tail(channels))

TraverseChannelTree(t, channelPath) ==
    LET path == ToLowerCase(channelPath)
        tokens == Split(path)
        channels == IF path # << >> /\ path[1] = "/" THEN Shift(tokens) ELSE tokens
    IN  Walk(t, Root, channels)

\* A walker that visits the node and its children, and no deeper.
SpreadOnSubtreeShallow(t, node) == {node} \cup Children(t, node)

\* The nodes _spreadOnSubtree visits from `node`.
RECURSIVE SpreadOnSubtree(_, _)
SpreadOnSubtree(t, node) ==
    {node} \cup UNION { SpreadOnSubtree(t, child) : child \in Children(t, node) }

\* ------------------------------------------------------------------ arrays

\* Array.prototype.includes
Includes(a, x) == \E i \in DOMAIN a : a[i] = x

\* Array.prototype.indexOf: the first position of x counted from 0, or -1.
IndexOf(a, x) ==
    IF Includes(a, x)
    THEN (CHOOSE i \in DOMAIN a : a[i] = x /\ \A j \in 1..(i - 1) : a[j] # x) - 1
    ELSE -1

\* Array.prototype.splice(index, 1): the array without the element at index.
Splice1(a, index) ==
    [i \in 1..(Len(a) - 1) |-> IF i <= index THEN a[i] ELSE a[i + 1]]

\* The set of the elements of an array.
Range(a) == { a[i] : i \in DOMAIN a }

\* ------------------------------------------------------------------ timers

\* The callback of broadcast/stream: () => l(message.payload).
\* `node` and `regs` are history: the node published to and the listeners
\* registered on it when the publishing call was made.
DeliverTask(l, msg, node, regs) ==
    [kind |-> "deliver", l |-> l, msg |-> msg, node |-> node, regs |-> regs,
     snap |-> Null, dirty |-> {}, last |-> "null"]

\* The callback of subscribe: () => { if (node.currentInfo) handler(...) }.
\* `snap`, `dirty` and `last` are history: the cache of the node when
\* subscribe was called; which of "stream" (to the node) and "silence" (on
\* the node or on an ancestor) were called since, with "more" for a second
\* stream and "turn" for a stream that was the very next call after the
\* subscribe; and the payload of the latest stream to the node called since
\* and not silenced since.
ReplayTask(handler, node, snap) ==
    [kind |-> "replay", l |-> handler, msg |-> Null, node |-> node, regs |-> {},
     snap |-> snap, dirty |-> {}, last |-> "null"]

IsPrefix(a, b) == Len(a) <= Len(b) /\ SubSeq(b, 1, Len(a)) = a

\* History only: note a stream of `payload` to `node`, called after the
\* step `op`, on the pending replay checks of the node.
MarkStreamed(q, node, payload, op) ==
    [i \in DOMAIN q |->
        IF q[i].kind = "replay" /\ q[i].node = node
        THEN [q[i] EXCEPT
                !.dirty = @ \cup {"stream"}
                            \cup (IF "stream" \in @ THEN {"more"} ELSE {})
                            \cup (IF /\ i = Len(q)
                                     /\ op.op = "subscribe"
                                     /\ op.node = node
                                     /\ op.l = q[i].l
                                  THEN {"turn"} ELSE {}),
                !.last = payload]
        ELSE q[i]]

\* History only: note a silence on `node` on the pending replay checks of it
\* and of the nodes below it.
MarkSilenced(q, node) ==
    [i \in DOMAIN q |->
        IF q[i].kind = "replay" /\ IsPrefix(node, q[i].node)
        THEN [q[i] EXCEPT !.dirty = @ \cup {"silence"}, !.last = "null"]
        ELSE q[i]]

\* ------------------------------------------------------------------ operations
\* Each operation is a function of the tree; it returns the tree it leaves,
\* the node it resolved, the callbacks it passed to setTimeout, in order, and
\* the handler invocations it made itself before returning.

\* An unsubscribe that also drops the cached message of a node left without
\* listeners.
UnsubscribeClears(t, channelPath, handler) ==
    LET r == TraverseChannelTree(t, ToLowerCase(channelPath))
        listeners == r.tree[r.node].listeners
        listenerIndex == IndexOf(listeners, handler)
        left == IF listenerIndex >= 0 THEN Splice1(listeners, listenerIndex) ELSE listeners
    IN  [tree |-> [r.tree EXCEPT ![r.node] =
                     [listeners |-> left,
                      currentInfo |-> IF left = << >> THEN Null ELSE @.currentInfo]],
         node |-> r.node,
         tasks |-> << >>,
         calls |-> << >>]

\* An unsubscribe that splices without testing the index: splice(-1, 1)
\* removes the last listener.
UnsubscribeNoGuard(t, channelPath, handler) ==
    LET r == TraverseChannelTree(t, ToLowerCase(channelPath))
        listeners == r.tree[r.node].listeners
        listenerIndex == IndexOf(listeners, handler)
        at == IF listenerIndex >= 0 THEN listenerIndex ELSE Len(listeners) - 1
    IN  [tree |-> IF listeners # << >>
                  THEN [r.tree EXCEPT ![r.node].listeners = Splice1(listeners, at)]
                  ELSE r.tree,
         node |-> r.node,
         tasks |-> << >>,
         calls |-> << >>]

\* unsubscribe (radio.ts:125-133)
Unsubscribe(t, channelPath, handler) ==
    LET r == TraverseChannelTree(t, ToLowerCase(channelPath))
        listeners == r.tree[r.node].listeners
        listenerIndex == IndexOf(listeners, handler)
    IN  [tree |-> IF listenerIndex >= 0
                  THEN [r.tree EXCEPT ![r.node].listeners = Splice1(listeners, listenerIndex)]
                  ELSE r.tree,
         node |-> r.node,
         tasks |-> << >>,
         calls |-> << >>]

\* A subscribe that registers the handler and schedules no replay check.
SubscribeNoReplay(t, channelPath, handler) ==
    LET r == TraverseChannelTree(t, ToLowerCase(channelPath))
        listeners == r.tree[r.node].listeners
    IN  [tree |-> IF ~Includes(listeners, handler)
                  THEN [r.tree EXCEPT ![r.node].listeners = Append(listeners, handler)]
                  ELSE r.tree,
         node |-> r.node,
         tasks |-> << >>,
         calls |-> << >>]

\* A subscribe that replays the cached message before it returns.
SubscribeInline(t, channelPath, handler) ==
    LET r == TraverseChannelTree(t, ToLowerCase(channelPath))
        listeners == r.tree[r.node].listeners
        info == r.tree[r.node].currentInfo
    IN  [tree |-> IF ~Includes(listeners, handler)
                  THEN [r.tree EXCEPT ![r.node].listeners = Append(listeners, handler)]
                  ELSE r.tree,
         node |-> r.node,
         tasks |-> << >>,
         calls |-> IF info # Null
                   THEN << [handler |-> handler.handler, l |-> handler, msg |-> info] >>
                   ELSE << >>]

\* A subscribe that appends the handler without looking for it in the list.
SubscribeAlways(t, channelPath, handler) ==
    LET r == TraverseChannelTree(t, ToLowerCase(channelPath))
        listeners == r.tree[r.node].listeners
    IN  [tree |-> [r.tree EXCEPT ![r.node].listeners = Append(listeners, handler)],
         node |-> r.node,
         tasks |-> << ReplayTask(handler, r.node, r.tree[r.node].currentInfo) >>,
         calls |-> << >>]

\* subscribe (radio.ts:109-123)
Subscribe(t, channelPath, handler) ==
    LET r == TraverseChannelTree(t, ToLowerCase(channelPath))
        listeners == r.tree[r.node].listeners
    IN  [tree |-> IF ~Includes(listeners, handler)
                  THEN [r.tree EXCEPT ![r.node].listeners = Append(listeners, handler)]
                  ELSE r.tree,
         node |-> r.node,
         tasks |-> << ReplayTask(handler, r.node, r.tree[r.node].currentInfo) >>,
         calls |-> << >>]

\* listenOnce (radio.ts:79-87); id is the identity of the closure created.
ListenOnce(t, channelPath, handler, id) ==
    Subscribe(t, ToLowerCase(channelPath), Once(id, handler, ToLowerCase(channelPath)))

\* The normalisation of a string argument (radio.ts:63-68, 96-101).
Normalise(message) ==
    IF message.str
    THEN [channel |-> <<"/">>, payload |-> message.payload]
    ELSE [channel |-> message.channel, payload |-> message.payload]

\* The listeners of a node and of every node below it, in some order.
RECURSIVE SubtreeListeners(_, _, _)
SubtreeListeners(t, node, todo) ==
    IF todo = {} THEN t[node].listeners
    ELSE LET child == CHOOSE c \in todo : TRUE
         IN  SubtreeListeners(t, child, Children(t, child))
                 \o SubtreeListeners(t, node, todo \ {child})

\* A broadcast that also reaches the listeners of the sub-channels.
BroadcastSubtree(t, message) ==
    LET m == Normalise(message)
        r == TraverseChannelTree(t, ToLowerCase(m.channel))
        all == SubtreeListeners(r.tree, r.node, Children(r.tree, r.node))
    IN  [tree |-> r.tree,
         node |-> r.node,
         tasks |-> [i \in DOMAIN all |->
                      DeliverTask(all[i], Message(m.payload, "broadcast"), r.node,
                                  Range(r.tree[r.node].listeners))],
         calls |-> << >>]

\* Deliveries queued from the last listener to the first.
DeliveriesReversed(listeners, msg, node) ==
    [i \in DOMAIN listeners |->
        DeliverTask(listeners[Len(listeners) + 1 - i], msg, node, Range(listeners))]

\* listeners.forEach(l => setTimeout(() => l(message.payload), 0))
Deliveries(listeners, msg, node) ==
    [i \in DOMAIN listeners |-> DeliverTask(listeners[i], msg, node, Range(listeners))]

\* A broadcast that caches its message on the node, as stream does.
BroadcastCaches(t, message) ==
    LET m == Normalise(message)
        r == TraverseChannelTree(t, ToLowerCase(m.channel))
        msg == Message(m.payload, "broadcast")
    IN  [tree |-> [r.tree EXCEPT ![r.node].currentInfo = msg],
         node |-> r.node,
         tasks |-> Deliveries(r.tree[r.node].listeners, msg, r.node),
         calls |-> << >>]

\* broadcast (radio.ts:61-73)
Broadcast(t, message) ==
    LET m == Normalise(message)
        r == TraverseChannelTree(t, ToLowerCase(m.channel))
    IN  [tree |-> r.tree,
         node |-> r.node,
         tasks |-> Deliveries(r.tree[r.node].listeners, Message(m.payload, "broadcast"), r.node),
         calls |-> << >>]

\* stream (radio.ts:94-107)
Stream(t, message) ==
    LET m == Normalise(message)
        r == TraverseChannelTree(t, ToLowerCase(m.channel))
        msg == Message(m.payload, "stream")
    IN  [tree |-> [r.tree EXCEPT ![r.node].currentInfo = msg],
         node |-> r.node,
         tasks |-> Deliveries(r.tree[r.node].listeners, msg, r.node),
         calls |-> << >>]

\* A silence that resets the nodes it visits, listeners included.
SilenceResets(t, arg) ==
    LET channelPath == ToLowerCase(IF arg.given THEN arg.path ELSE <<"/">>)
        r == TraverseChannelTree(t, channelPath)
        visited == SpreadOnSubtree(r.tree, r.node)
    IN  [tree |-> [n \in DOMAIN r.tree |->
                     IF n \in visited THEN EmptyNode ELSE r.tree[n]],
         node |-> r.node,
         tasks |-> << >>,
         calls |-> << >>]

\* silence (radio.ts:89-92)
Silence(t, arg) ==
    LET channelPath == ToLowerCase(IF arg.given THEN arg.path ELSE <<"/">>)
        r == TraverseChannelTree(t, channelPath)
        visited == SpreadOnSubtree(r.tree, r.node)
    IN  [tree |-> [n \in DOMAIN r.tree |->
                     IF n \in visited
                     THEN [r.tree[n] EXCEPT !.currentInfo = Null]
                     ELSE r.tree[n]],
         node |-> r.node,
         tasks |-> << >>,
         calls |-> << >>]

\* isStreaming (radio.ts:75-77)
IsStreaming(t, channel) ==
    LET r == TraverseChannelTree(t, channel)
    IN  [tree |-> r.tree,
         node |-> r.node,
         tasks |-> << >>,
         calls |-> << >>,
         result |-> r.tree[r.node].currentInfo # Null]

\* A closure of listenOnce that unsubscribes the caller's handler instead of
\* itself.
InvokeDropsHandler(t, l, msg) ==
    [tree |-> IF l.kind = "once"
              THEN Unsubscribe(t, l.channelPath, Fn(l.handler)).tree
              ELSE t,
     calls |-> << [handler |-> l.handler, l |-> l, msg |-> msg] >>]

\* A call of listener l with a message's payload: a registered function is
\* the caller's handler itself; the closure of listenOnce calls its handler
\* and then unsubscribes itself (radio.ts:81-84).
Invoke(t, l, msg) ==
    [tree |-> IF l.kind = "once" THEN Unsubscribe(t, l.channelPath, l).tree ELSE t,
     calls |-> << [handler |-> l.handler, l |-> l, msg |-> msg] >>]

\* A callback that delivers only to a listener still registered on the node.
RunTaskIfRegistered(t, task) ==
    IF task.kind = "deliver"
    THEN IF Includes(t[task.node].listeners, task.l)
         THEN Invoke(t, task.l, task.msg)
         ELSE [tree |-> t, calls |-> << >>]
    ELSE IF t[task.node].currentInfo # Null
         THEN Invoke(t, task.l, t[task.node].currentInfo)
         ELSE [tree |-> t, calls |-> << >>]

\* A replay check that passes the message cached when subscribe was called.
RunTaskSnapshot(t, task) ==
    IF task.kind = "deliver"
    THEN Invoke(t, task.l, task.msg)
    ELSE IF task.snap # Null
         THEN Invoke(t, task.l, task.snap)
         ELSE [tree |-> t, calls |-> << >>]

\* The body of a setTimeout callback.  A caller's handler is opaque: it
\* returns, and makes no call on the radio itself.
RunTask(t, task) ==
    IF task.kind = "deliver"
    THEN Invoke(t, task.l, task.msg)
    ELSE IF t[task.node].currentInfo # Null
         THEN Invoke(t, task.l, t[task.node].currentInfo)
         ELSE [tree |-> t, calls |-> << >>]

\* ------------------------------------------------------------------ static packaging
\* The class of static methods over the module's one listenersRoot
\* (unnamed/part_000:58-188).  Its methods take no root: they read sTree.

\* A path resolution that forgets to lower-case the path.
StaticTraverseKeepsCase(channelPath) ==
    LET tokens == Split(channelPath)
        channels == IF channelPath # << >> /\ channelPath[1] = "/"
                    THEN Shift(tokens) ELSE tokens
    IN  Walk(sTree, Root, channels)

\* The loop of the static _traverseChannelTree (part_000:90-105).
RECURSIVE StaticWalk(_, _, _)
StaticWalk(t, currentNode, channels) ==
    IF channels = << >> \/ Head(channels) = << >>
    THEN [tree |-> t, node |-> currentNode]
    ELSE LET child == Append(currentNode, Head(channels))
         IN  StaticWalk(IF child \in DOMAIN t THEN t ELSE t @@ (child :> EmptyNode),
                        child, Tail(channels))

\* static _traverseChannelTree (part_000:78-108)
StaticTraverseChannelTree(channelPath) ==
    LET path == ToLowerCase(channelPath)
        tokens == Split(path)
        channels == IF path # << >> /\ path[1] = "/" THEN Shift(tokens) ELSE tokens
    IN  StaticWalk(sTree, Root, channels)

\* static _spreadOnSubtree (part_000:64-69)
RECURSIVE StaticSpreadOnSubtree(_, _)
StaticSpreadOnSubtree(t, node) ==
    {node} \cup UNION { StaticSpreadOnSubtree(t, child) : child \in Children(t, node) }

\* static unsubscribe (part_000:179-187)
StaticUnsubscribe(channelPath, handler) ==
    LET r == StaticTraverseChannelTree(ToLowerCase(channelPath))
        listeners == r.tree[r.node].listeners
        listenerIndex == IndexOf(listeners, handler)
    IN  [tree |-> IF listenerIndex >= 0
                  THEN [r.tree EXCEPT ![r.node].listeners = Splice1(listeners, listenerIndex)]
                  ELSE r.tree,
         tasks |-> << >>]

\* static subscribe (part_000:163-177)
StaticSubscribe(channelPath, handler) ==
    LET r == StaticTraverseChannelTree(ToLowerCase(channelPath))
        listeners == r.tree[r.node].listeners
    IN  [tree |-> IF ~Includes(listeners, handler)
                  THEN [r.tree EXCEPT ![r.node].listeners = Append(listeners, handler)]
                  ELSE r.tree,
         tasks |-> << ReplayTask(handler, r.node, r.tree[r.node].currentInfo) >>]

\* static listenOnce (part_000:130-138)
StaticListenOnce(channelPath, handler, id) ==
    StaticSubscribe(ToLowerCase(channelPath),
                    Once(id, handler, ToLowerCase(channelPath)))

\* static broadcast (part_000:110-124)
StaticBroadcast(message) ==
    LET m == Normalise(message)
        r == StaticTraverseChannelTree(ToLowerCase(m.channel))
    IN  [tree |-> r.tree,
         tasks |-> Deliveries(r.tree[r.node].listeners,
                              Message(m.payload, "broadcast"), r.node)]

\* static stream (part_000:148-161)
StaticStream(message) ==
    LET m == Normalise(message)
        r == StaticTraverseChannelTree(ToLowerCase(m.channel))
        msg == Message(m.payload, "stream")
    IN  [tree |-> [r.tree EXCEPT ![r.node].currentInfo = msg],
         tasks |-> Deliveries(r.tree[r.node].listeners, msg, r.node)]

\* static silence (part_000:140-146)
StaticSilence(arg) ==
    LET r == StaticTraverseChannelTree(
                 ToLowerCase(IF arg.given THEN arg.path ELSE <<"/">>))
        visited == StaticSpreadOnSubtree(r.tree, r.node)
    IN  [tree |-> [n \in DOMAIN r.tree |->
                     IF n \in visited
                     THEN [r.tree[n] EXCEPT !.currentInfo = Null]
                     ELSE r.tree[n]],
         tasks |-> << >>]

\* static isStreaming (part_000:126-128)
StaticIsStreaming(channel) ==
    LET r == StaticTraverseChannelTree(channel)
    IN  [tree |-> r.tree,
         tasks |-> << >>,
         result |-> r.tree[r.node].currentInfo # Null]

\* The body of a setTimeout callback of the static packaging: a delivery
\* (part_000:123, 160) or a replay check (part_000:172-176), the closure of
\* listenOnce unsubscribing itself after its handler (part_000:132-135).
StaticRunTask(task) ==
    LET msg == IF task.kind = "deliver" THEN task.msg ELSE sTree[task.node].currentInfo
    IN  IF msg = Null
        THEN [tree |-> sTree, calls |-> << >>]
        ELSE [tree |-> IF task.l.kind = "once"
                       THEN StaticUnsubscribe(task.l.channelPath, task.l).tree
                       ELSE sTree,
              calls |-> << [handler |-> task.l.handler, l |-> task.l, msg |-> msg] >>]

\* A public call on the static packaging, made with the arguments of the
\* call on the instance.
StaticCalled(r) ==
    /\ sTree' = r.tree
    /\ sTimers' = sTimers \o r.tasks
    /\ sCalls' = << >>

\* The host runs the oldest pending callback of the static packaging.
StaticTimer ==
    IF sTimers = << >>
    THEN UNCHANGED << sTree, sTimers, sCalls >>
    ELSE LET r == StaticRunTask(Head(sTimers))
         IN  /\ sTree' = r.tree
             /\ sCalls' = r.calls
             /\ sTimers' = Tail(sTimers)

\* ------------------------------------------------------------------ steps
\* Every step drives an AppRadio instance and the static packaging side by
\* side, with the same arguments.

Op(op, node, l, result, task) ==
    [op |-> op, node |-> node, l |-> l, result |-> result, task |-> task]

Init ==
    /\ tree = (Root :> EmptyNode)
    /\ timers = << >>
    /\ nextId = 1
    /\ calls = << >>
    /\ lastOp = Op("init", Root, NoListener, FALSE, NoTask)
    /\ live = {}
    /\ onceRuns = << >>
    /\ ncalls = 0
    /\ sTree = (Root :> EmptyNode)
    /\ sTimers = << >>
    /\ sCalls = << >>

\* What every public call does besides its own effect: it runs to its end in
\* the caller's turn; the callbacks it queued run in later turns.
Called(r, op, l, result) ==
    /\ ncalls < MaxCalls
    /\ ncalls' = ncalls + 1
    /\ tree' = r.tree
    /\ calls' = r.calls
    /\ lastOp' = Op(op, r.node, l, result, NoTask)

DoSubscribe(channelPath, handler) ==
    LET r == Subscribe(tree, channelPath, Fn(handler))
    IN  /\ Called(r, "subscribe", Fn(handler), FALSE)
        /\ timers' = timers \o r.tasks
        /\ StaticCalled(StaticSubscribe(channelPath, Fn(handler)))
        /\ UNCHANGED << nextId, live, onceRuns >>

DoUnsubscribe(channelPath, handler) ==
    LET r == Unsubscribe(tree, channelPath, Fn(handler))
    IN  /\ Called(r, "unsubscribe", Fn(handler), FALSE)
        /\ StaticCalled(StaticUnsubscribe(channelPath, Fn(handler)))
        /\ UNCHANGED << timers, nextId, live, onceRuns >>

DoListenOnce(channelPath, handler) ==
    LET r == ListenOnce(tree, channelPath, handler, nextId)
    IN  /\ Called(r, "listenOnce", Once(nextId, handler, ToLowerCase(channelPath)), FALSE)
        /\ timers' = timers \o r.tasks
        /\ nextId' = nextId + 1
        /\ onceRuns' = Append(onceRuns, 0)
        /\ StaticCalled(StaticListenOnce(channelPath, handler, nextId))
        /\ UNCHANGED live

DoBroadcast(message) ==
    LET r == Broadcast(tree, message)
    IN  /\ Called(r, "broadcast", NoListener, FALSE)
        /\ timers' = timers \o r.tasks
        /\ StaticCalled(StaticBroadcast(message))
        /\ UNCHANGED << nextId, live, onceRuns >>

DoStream(message) ==
    LET r == Stream(tree, message)
    IN  /\ Called(r, "stream", NoListener, FALSE)
        /\ timers' = MarkStreamed(timers, r.node, message.payload, lastOp) \o r.tasks
        /\ live' = live \cup {r.node}
        /\ StaticCalled(StaticStream(message))
        /\ UNCHANGED << nextId, onceRuns >>

DoSilence(arg) ==
    LET r == Silence(tree, arg)
    IN  /\ Called(r, "silence", NoListener, FALSE)
        /\ timers' = MarkSilenced(timers, r.node)
        /\ live' = { n \in live : ~IsPrefix(r.node, n) }
        /\ StaticCalled(StaticSilence(arg))
        /\ UNCHANGED << nextId, onceRuns >>

DoIsStreaming(channel) ==
    LET r == IsStreaming(tree, channel)
    IN  /\ Called(r, "isStreaming", NoListener, r.result)
        /\ StaticCalled(StaticIsStreaming(channel))
        /\ UNCHANGED << timers, nextId, live, onceRuns >>

\* The host runs the oldest pending setTimeout callback, in a turn of its own.
Timer ==
    /\ timers # << >>
    /\ LET task == Head(timers)
           r == RunTask(tree, task)
       IN  /\ tree' = r.tree
           /\ calls' = r.calls
           /\ lastOp' = Op("timer", task.node, task.l, FALSE, task)
           /\ onceRuns' = IF r.calls # << >> /\ task.l.kind = "once"
                          THEN [onceRuns EXCEPT ![task.l.id] = @ + 1]
                          ELSE onceRuns
    /\ timers' = Tail(timers)
    /\ StaticTimer
    /\ UNCHANGED << nextId, live, ncalls >>

\* One step of the program, the callers drawing their arguments from the
\* given paths, handlers and payloads.
NextOn(paths, handlers, payloads) ==
    \/ \E p \in paths, h \in handlers : DoSubscribe(p, h)
    \/ \E p \in paths, h \in handlers : DoUnsubscribe(p, h)
    \/ \E p \in paths, h \in handlers : DoListenOnce(p, h)
    \/ \E m \in MessageArgs(paths, payloads) : DoBroadcast(m)
    \/ \E m \in MessageArgs(paths, payloads) : DoStream(m)
    \/ \E a \in SilenceArgs(paths) : DoSilence(a)
    \/ \E p \in paths : DoIsStreaming(p)
    \/ Timer

Next == NextOn(Paths, Handlers, Payloads)

Spec == Init /\ [][Next]_vars

\* Callers that use every path, one handler and one payload: the behaviours
\* under which path resolution is examined.
CaseHandlers == { "h1" }

CasePayloads == { "x" }

CaseNext == NextOn(Paths, CaseHandlers, CasePayloads)

CaseSpec == Init /\ [][CaseNext]_vars

\* Paths with empty segments: "", "/", "a/", "a//b", "//a", and "a/b".
EdgePaths ==
    { << >>, <<"/">>, <<"a", "/">>, <<"a", "/", "/", "b">>,
      <<"/", "/", "a">>, <<"a", "/", "b">> }

EdgeNext == NextOn(EdgePaths, CaseHandlers, CasePayloads)

EdgeSpec == Init /\ [][EdgeNext]_vars

\* The host takes the oldest pending callback off its queue: what a Timer
\* step, and no other step, does to the queue.
TimerFires == timers # << >> /\ timers' = Tail(timers)

\* The host's timer queue is served: a pending callback eventually runs.
FairSpec == Spec /\ WF_timers(TimerFires)

\* ------------------------------------------------------------------ claims

Nodes == DOMAIN tree

Cache(n) == tree[n].currentInfo

Listeners(n) == tree[n].listeners

PublicOps ==
    { "broadcast", "stream", "subscribe", "listenOnce", "unsubscribe",
      "silence", "isStreaming" }

\* C1: no handler is invoked inside a public call: when a public call has
\* just returned, no handler invocation has been made by it; invocations are
\* made only by timer callbacks, in a later turn.
C1_NoHandlerInsideCall ==
    lastOp.op \in PublicOps => calls = << >>

\* C1 witness: a subscribe has just returned on a node that caches a streamed
\* message; its replay is queued and nothing has been invoked.
C1_Witness ==
    /\ lastOp.op = "subscribe"
    /\ Cache(lastOp.node) # Null
    /\ \E i \in DOMAIN timers :
          timers[i].kind = "replay" /\ timers[i].l = lastOp.l /\ timers[i].node = lastOp.node
    /\ calls = << >>

\* C2: the closure of one listenOnce call invokes its handler at most one
\* time in total, however many streams follow the listenOnce.
C2_ListenOnceExactlyOnce ==
    \A id \in DOMAIN onceRuns : onceRuns[id] <= 1

\* C3: isStreaming(p) is true exactly when the node of p was streamed to and
\* no silence on it or on one of its ancestors was called since.
C3_IsStreamingIffLive ==
    \A p \in Paths :
        IsStreaming(tree, p).result <=> (TraverseChannelTree(tree, p).node \in live)

\* C3 witness: a silence on "a/b" has just returned; "a/b" is not streaming
\* and the root above it, streamed to before, still is.
C3_Witness ==
    /\ lastOp.op = "silence"
    /\ lastOp.node = << <<"a">>, <<"b">> >>
    /\ ~IsStreaming(tree, <<"a", "/", "b">>).result
    /\ IsStreaming(tree, <<"/">>).result
    /\ live = {Root}

\* The nodes the paths in use denote.
AllNodes == { TraverseChannelTree(Root :> EmptyNode, p).node : p \in Paths }

\* subscribe(p, h) has just returned, p resolving to n, and n caches payload v.
Subscribed(h, n, v) ==
    /\ lastOp.op = "subscribe"
    /\ lastOp.l = Fn(h)
    /\ lastOp.node = n
    /\ Cache(n) # Null
    /\ Cache(n).payload = v

\* The replay check of a subscribe(p, h) made when n cached v has just run.
ReplayRan(h, n, v) ==
    /\ lastOp.op = "timer"
    /\ lastOp.task.kind = "replay"
    /\ lastOp.task.l = Fn(h)
    /\ lastOp.task.node = n
    /\ lastOp.task.snap # Null
    /\ lastOp.task.snap.payload = v

\* The latest step invoked h with payload v.
Delivered(h, v) ==
    \E i \in DOMAIN calls : calls[i].handler = h /\ calls[i].msg.payload = v

StreamReaches(t, p, x, l) ==
    LET tasks == Stream(t, [str |-> FALSE, channel |-> p, payload |-> x]).tasks
    IN  \E i \in DOMAIN tasks : tasks[i].l = l /\ tasks[i].msg.payload = x

\* C5: silence() without an argument leaves no node of the tree streaming and
\* changes neither the set of nodes nor any listener list; a stream to p made
\* next still queues a delivery to every listener p had before the silence.
C5_SilenceAllKeepsListeners ==
    [][ DoSilence([given |-> FALSE, path |-> << >>]) =>
          /\ DOMAIN tree' = DOMAIN tree
          /\ \A n \in DOMAIN tree' :
                /\ tree'[n].currentInfo = Null
                /\ tree'[n].listeners = tree[n].listeners
          /\ \A p \in Paths, x \in Payloads :
                LET n == TraverseChannelTree(tree, p).node
                IN  n \in DOMAIN tree =>
                        \A l \in Range(tree[n].listeners) : StreamReaches(tree', p, x, l)
      ]_vars

\* C5 witness: a silence on the root has just returned; the nested node
\* "a/b" was streamed to (its deliveries are still queued), is not streaming
\* any more and still has its listener.
C5_Witness ==
    /\ lastOp.op = "silence"
    /\ lastOp.node = Root
    /\ << <<"a">>, <<"b">> >> \in Nodes
    /\ Cache(<< <<"a">>, <<"b">> >>) = Null
    /\ Listeners(<< <<"a">>, <<"b">> >>) # << >>
    /\ \E i \in DOMAIN timers :
          /\ timers[i].kind = "deliver"
          /\ timers[i].msg.via = "stream"
          /\ timers[i].node = << <<"a">>, <<"b">> >>

\* The callbacks the step queued.
Queued == SubSeq(timers', Len(timers) + 1, Len(timers'))

\* C6: a broadcast or stream to p queues one delivery for each listener of
\* exactly the node of p, in list order, and nothing else; listeners of the
\* nodes above or below get none.
C6_ExactNodeOnly ==
    [][ lastOp'.op \in {"broadcast", "stream"} =>
          /\ [i \in DOMAIN Queued |-> Queued[i].l] = tree'[lastOp'.node].listeners
          /\ \A i \in DOMAIN Queued : Queued[i].kind = "deliver"
      ]_vars

\* C6 witness: a publication to "a/b" has just returned with deliveries
\* queued for its listeners only, while the root above has a listener too.
C6_Witness ==
    /\ lastOp.op \in {"broadcast", "stream"}
    /\ lastOp.node = << <<"a">>, <<"b">> >>
    /\ Listeners(<< <<"a">>, <<"b">> >>) # << >>
    /\ Listeners(Root) # << >>
    /\ Len(timers) = Len(Listeners(<< <<"a">>, <<"b">> >>))
    /\ \A i \in DOMAIN timers : timers[i].kind = "deliver"

\* The two cases of each letter of the alphabet in use.
LetterCases == { {"a", "A"}, {"b", "B"} }

\* Two paths that differ at most in letter case.
SameButCase(p1, p2) ==
    /\ Len(p1) = Len(p2)
    /\ \A i \in DOMAIN p1 : p1[i] = p2[i] \/ {p1[i], p2[i]} \in LetterCases

\* C7: channel names are case-insensitive: on two paths that differ only in
\* letter case every operation has the same effect and resolves the same
\* node, and a handler subscribed on one is queued the payload broadcast on
\* the other.
C7_CaseInsensitive ==
    \A p1, p2 \in Paths :
        p1 # p2 /\ SameButCase(p1, p2) =>
            /\ IsStreaming(tree, p1) = IsStreaming(tree, p2)
            /\ Silence(tree, [given |-> TRUE, path |-> p1])
                   = Silence(tree, [given |-> TRUE, path |-> p2])
            /\ \A h \in CaseHandlers :
                  /\ Subscribe(tree, p1, Fn(h)) = Subscribe(tree, p2, Fn(h))
                  /\ Unsubscribe(tree, p1, Fn(h)) = Unsubscribe(tree, p2, Fn(h))
                  /\ ListenOnce(tree, p1, h, nextId) = ListenOnce(tree, p2, h, nextId)
            /\ \A x \in CasePayloads :
                  LET m1 == [str |-> FALSE, channel |-> p1, payload |-> x]
                      m2 == [str |-> FALSE, channel |-> p2, payload |-> x]
                  IN  /\ Broadcast(tree, m1) = Broadcast(tree, m2)
                      /\ Stream(tree, m1) = Stream(tree, m2)
                      /\ \A h \in CaseHandlers :
                            LET tasks == Broadcast(Subscribe(tree, p1, Fn(h)).tree, m2).tasks
                            IN  \E i \in DOMAIN tasks :
                                   tasks[i].l = Fn(h) /\ tasks[i].msg.payload = x

\* C7 witness: a timer has delivered a broadcast to a handler on node "a/b",
\* which the paths "a/b" and "A/B" both denote.
C7_Witness ==
    /\ lastOp.op = "timer"
    /\ lastOp.task.kind = "deliver"
    /\ lastOp.task.msg.via = "broadcast"
    /\ lastOp.node = << <<"a">>, <<"b">> >>
    /\ calls # << >>
    /\ \E p1, p2 \in Paths :
          /\ p1 # p2
          /\ SameButCase(p1, p2)
          /\ TraverseChannelTree(tree, p1).node = lastOp.node
          /\ TraverseChannelTree(tree, p2).node = lastOp.node

\* C8: no listener list holds the same handler twice; so after an
\* unsubscribe(p, h) no registration of h is left on p, and after a
\* subscribe(p, h) there is one.
C8_NoDuplicateListener ==
    /\ \A n \in Nodes :
          \A i, j \in DOMAIN Listeners(n) :
              Listeners(n)[i] = Listeners(n)[j] => i = j
    /\ lastOp.op = "unsubscribe" => ~Includes(Listeners(lastOp.node), lastOp.l)
    /\ lastOp.op = "subscribe" => Includes(Listeners(lastOp.node), lastOp.l)

\* C8 witness: an unsubscribe(p, h) has just returned after h was subscribed
\* to p twice (both replay checks are still queued), and h is not on p.
C8_Witness ==
    /\ lastOp.op = "unsubscribe"
    /\ ~Includes(Listeners(lastOp.node), lastOp.l)
    /\ Len(timers) = 2
    /\ \A i \in DOMAIN timers :
          /\ timers[i].kind = "replay"
          /\ timers[i].l = lastOp.l
          /\ timers[i].node = lastOp.node

\* The cached message of node n before and after the step (a node the step
\* creates had none before).
CacheBefore(n) == IF n \in DOMAIN tree THEN tree[n].currentInfo ELSE Null

CacheAfter(n) == tree'[n].currentInfo

\* C9: only stream sets a cached message and only silence clears one: every
\* other step (broadcast, subscribe, unsubscribe, listenOnce, isStreaming, a
\* timer callback) leaves the cached message of every node as it was.
C9_OnlyStreamSetsOnlySilenceClears ==
    [][ \A n \in DOMAIN tree' :
          /\ CacheAfter(n) # CacheBefore(n) => lastOp'.op \in {"stream", "silence"}
          /\ CacheAfter(n) # CacheBefore(n) /\ CacheAfter(n) # Null => lastOp'.op = "stream"
          /\ CacheAfter(n) # CacheBefore(n) /\ CacheAfter(n) = Null => lastOp'.op = "silence"
      ]_vars

\* C9 witness: a broadcast to a node with a listener has just returned, its
\* delivery is queued and the node is not streaming.
C9_Witness ==
    /\ lastOp.op = "broadcast"
    /\ Cache(lastOp.node) = Null
    /\ lastOp.node = << <<"a">>, <<"b">> >>
    /\ ~IsStreaming(tree, <<"A", "/", "B">>).result
    /\ \E i \in DOMAIN timers :
          /\ timers[i].kind = "deliver"
          /\ timers[i].msg.via = "broadcast"
          /\ timers[i].node = lastOp.node

\* C10: a handler is invoked with the payload of a broadcast only by a
\* delivery that the broadcast call queued for it, that is only if it was in
\* the node's listener list when broadcast was called; a subscribe made
\* later never brings it that payload.
C10_BroadcastNotRetroactive ==
    /\ \A i \in DOMAIN calls :
          calls[i].msg.via = "broadcast" =>
              /\ lastOp.op = "timer"
              /\ lastOp.task.kind = "deliver"
              /\ calls[i].l \in lastOp.task.regs
    /\ \A i \in DOMAIN timers :
          timers[i].msg.via = "broadcast" =>
              timers[i].kind = "deliver" /\ timers[i].l \in timers[i].regs

\* C10 witness: a delivery of a broadcast has just run and invoked the
\* listener it was queued for, while the node also has a listener that was
\* subscribed after the broadcast call and is not invoked.
C10_Witness ==
    /\ lastOp.op = "timer"
    /\ lastOp.task.kind = "deliver"
    /\ lastOp.task.msg.via = "broadcast"
    /\ \E i \in DOMAIN Listeners(lastOp.node) :
          Listeners(lastOp.node)[i] \notin lastOp.task.regs
    /\ calls # << >>
    /\ \A i \in DOMAIN calls : calls[i].l \in lastOp.task.regs

\* C11: isStreaming(p) changes nothing in the engine: not the set of nodes,
\* no listener list, no cached message.
C11_IsStreamingPure ==
    [][ lastOp'.op = "isStreaming" => tree' = tree ]_vars

\* Node n keeps its listener list and its cached message in the step; a node
\* the step creates has neither.
NodeKept(n) ==
    tree'[n] = IF n \in DOMAIN tree THEN tree[n] ELSE EmptyNode

\* C12: an unsubscribe(p, h) of a handler not registered on p, and a
\* silence(p) of a path with no streaming node at or below it, complete and
\* leave every listener list and every cached message as they were.
C12_NoOpsChangeNothing ==
    [][ /\ \A p \in Paths, h \in Handlers :
              LET n == TraverseChannelTree(tree, p).node
              IN  /\ DoUnsubscribe(p, h)
                  /\ (n \in DOMAIN tree => ~Includes(tree[n].listeners, Fn(h)))
                  => \A m \in DOMAIN tree' : NodeKept(m)
        /\ \A a \in SilenceArgs(Paths) :
              LET n == TraverseChannelTree(tree, IF a.given THEN a.path ELSE <<"/">>).node
              IN  /\ DoSilence(a)
                  /\ \A m \in DOMAIN tree : IsPrefix(n, m) => tree[m].currentInfo = Null
                  => \A m \in DOMAIN tree' : NodeKept(m)
      ]_vars

\* C12 witness: an unsubscribe of a handler that was never registered has
\* just returned on a node that has another listener and a cached message.
C12_Witness ==
    /\ lastOp.op = "unsubscribe"
    /\ ncalls = 3
    /\ nextId = 1
    /\ Len(Listeners(lastOp.node)) = 1
    /\ ~Includes(Listeners(lastOp.node), lastOp.l)
    /\ Cache(lastOp.node) # Null
    /\ Len(timers) = 2

\* C14: path resolution stops at the first empty segment left after one
\* leading slash is dropped: "" and "/" resolve to the root and create no
\* node, "a//b" and "a/" resolve to the node of "a", "//a" to the root, and
\* no node has a child keyed by the empty string.
C14_StopsAtEmptySegment ==
    /\ \A p \in { << >>, <<"/">>, <<"/", "/", "a">> } :
          TraverseChannelTree(tree, p) = [tree |-> tree, node |-> Root]
    /\ \A p \in { <<"a", "/">>, <<"a", "/", "/", "b">> } :
          /\ TraverseChannelTree(tree, p).node = << <<"a">> >>
          /\ DOMAIN TraverseChannelTree(tree, p).tree = DOMAIN tree \cup { << <<"a">> >> }
    /\ \A n \in DOMAIN tree : \A i \in DOMAIN n : n[i] # << >>
    /\ lastOp.op \in PublicOps => lastOp.node \in { Root, << <<"a">> >>, << <<"a">>, <<"b">> >> }

\* C14 witness: messages are cached on the root and on the node of "a",
\* which has a listener, and the node of "a/b" has never been created: the
\* calls used paths with an empty segment.
C14_Witness ==
    /\ DOMAIN tree = { Root, << <<"a">> >> }
    /\ Cache(Root) # Null
    /\ Cache(<< <<"a">> >>) # Null
    /\ Listeners(<< <<"a">> >>) # << >>

\* The list a without the listener x.
Without(a, x) == SelectSeq(a, LAMBDA y : y # x)

\* C19: the closure of listenOnce(p, h) removes its own registration when it
\* first invokes h, by a live delivery or by the replay check: after that
\* invocation it is in no listener list, the list of p is the list without
\* it, every other list and every cache is untouched, and no broadcast or
\* stream called afterwards queues a delivery to it.
C19_ListenOnceRemovesItself ==
    [][ /\ ( /\ lastOp'.op = "timer"
             /\ lastOp'.l.kind = "once"
             /\ calls' # << >> )
           => LET w == lastOp'.l
                  n == lastOp'.node
              IN  /\ DOMAIN tree' = DOMAIN tree
                  /\ tree'[n].listeners = Without(tree[n].listeners, w)
                  /\ tree'[n].currentInfo = tree[n].currentInfo
                  /\ \A m \in DOMAIN tree \ {n} : tree'[m] = tree[m]
        /\ \A m \in DOMAIN tree' : \A i \in DOMAIN tree'[m].listeners :
              LET l == tree'[m].listeners[i]
              IN  l.kind = "once" => onceRuns'[l.id] = 0
        /\ lastOp'.op \in {"broadcast", "stream"}
           => \A i \in DOMAIN Queued :
                 Queued[i].l.kind = "once" => onceRuns[Queued[i].l.id] = 0
      ]_vars

\* C19 witness: a closure of listenOnce has just invoked its handler for the
\* first time and has left the list, in which another listener remains.
C19_Witness ==
    /\ lastOp.op = "timer"
    /\ lastOp.l.kind = "once"
    /\ calls # << >>
    /\ onceRuns[lastOp.l.id] = 1
    /\ Listeners(lastOp.node) # << >>
    /\ ~Includes(Listeners(lastOp.node), lastOp.l)

\* A delivery of payload v to handler h, queued by a broadcast or a stream,
\* has not run yet.
PendingDelivery(h, v) ==
    \E i \in DOMAIN timers :
        /\ timers[i].kind = "deliver"
        /\ timers[i].l.handler = h
        /\ timers[i].msg.payload = v

\* A delivery of payload v to handler h has just run and has invoked h with v.
DeliveryRan(h, v) ==
    /\ lastOp.op = "timer"
    /\ lastOp.task.kind = "deliver"
    /\ lastOp.task.l.handler = h
    /\ lastOp.task.msg.payload = v
    /\ Delivered(h, v)

\* C16: every delivery a broadcast or a stream has scheduled eventually runs
\* and invokes its handler with that payload, whatever is called before it
\* runs: an unsubscribe or a silence after the publication cancels nothing.
C16_ScheduledDeliveryRuns ==
    \A h \in Handlers, v \in Payloads :
        PendingDelivery(h, v) ~> DeliveryRan(h, v)

\* C16 witness: a delivery has just invoked a handler that was unsubscribed
\* from the node after the publication.
C16_Witness ==
    /\ lastOp.op = "timer"
    /\ lastOp.task.kind = "deliver"
    /\ lastOp.l.kind = "fn"
    /\ lastOp.l \in lastOp.task.regs
    /\ ~Includes(Listeners(lastOp.node), lastOp.l)
    /\ Delivered(lastOp.l.handler, lastOp.task.msg.payload)

\* The callback of a queued task, without the history it carries.
Callback(task) == [kind |-> task.kind, l |-> task.l, msg |-> task.msg, node |-> task.node]

\* C17: deferred deliveries run in the order they were scheduled.  A call
\* leaves the pending callbacks ahead of the ones it queues, in their order;
\* a broadcast or stream queues its deliveries in the order of the listener
\* list; a timer step runs the oldest pending callback and nothing else; so
\* the deliveries of a publication are behind those of every earlier one.
C17_RunInSchedulingOrder ==
    [][ /\ lastOp'.op \in PublicOps
           => /\ Len(timers') >= Len(timers)
              /\ \A i \in DOMAIN timers : Callback(timers'[i]) = Callback(timers[i])
        /\ lastOp'.op \in {"broadcast", "stream"}
           => \A i, j \in DOMAIN Queued :
                 i < j => IndexOf(tree'[lastOp'.node].listeners, Queued[i].l)
                            < IndexOf(tree'[lastOp'.node].listeners, Queued[j].l)
        /\ lastOp'.op = "timer"
           => /\ lastOp'.task = Head(timers)
              /\ timers' = Tail(timers)
              /\ \A i \in DOMAIN calls' : calls'[i].l = Head(timers).l
      ]_vars

\* C17 witness: the delivery of a message to the first listener of a node
\* has just run, and the delivery of the same message to the second listener
\* is the next to run.
C17_Witness ==
    /\ lastOp.op = "timer"
    /\ lastOp.task.kind = "deliver"
    /\ calls # << >>
    /\ timers # << >>
    /\ Head(timers).kind = "deliver"
    /\ Head(timers).msg = lastOp.task.msg
    /\ Len(Listeners(lastOp.node)) = 2
    /\ Listeners(lastOp.node)[1] = lastOp.l
    /\ Listeners(lastOp.node)[2] = Head(timers).l

C18_SameTurnExactlyOnce ==
    ( /\ lastOp.op = "timer"
      /\ lastOp.task.kind = "replay"
      /\ lastOp.l.kind = "fn"
      /\ lastOp.task.snap = Null
      /\ lastOp.task.dirty = {"stream", "turn"}
      /\ Delivered(lastOp.l.handler, lastOp.task.last) )
    => ~ \E i \in DOMAIN timers :
            /\ timers[i].kind = "deliver"
            /\ timers[i].l = lastOp.l
            /\ timers[i].node = lastOp.node
            /\ timers[i].msg = Message(lastOp.task.last, "stream")

\* C13: the static packaging and an AppRadio instance, driven side by side
\* by the same calls and timer firings from an empty tree, have the same
\* nodes, listener lists and cached messages in every state, the same
\* callbacks pending in the same order, and have invoked the same handlers
\* with the same payloads in the same order; isStreaming answers the same.
C13_PackagingsAgree ==
    /\ sTree = tree
    /\ Len(sTimers) = Len(timers)
    /\ \A i \in DOMAIN timers : Callback(sTimers[i]) = Callback(timers[i])
    /\ sCalls = calls
    /\ \A p \in Paths : StaticIsStreaming(p).result = IsStreaming(tree, p).result

\* C13 witness: on both packagings a closure of listenOnce has just invoked
\* its handler and left the list, a message is cached on the node, and a
\* delivery is still pending.
C13_Witness ==
    /\ lastOp.op = "timer"
    /\ lastOp.l.kind = "once"
    /\ sCalls # << >>
    /\ sCalls[1].l = lastOp.l
    /\ sTree[lastOp.node].currentInfo # Null
    /\ ~Includes(sTree[lastOp.node].listeners, lastOp.l)
    /\ sTimers # << >>

====
